---- MODULE Spec2Model ----
(***************************************************************************)
(* NNModel (pygan/generativemodel/nn_model.py): the adapter that lets a    *)
(* pydbm NeuralNetwork act as the generator of a GAN.                      *)
(*                                                                         *)
(* Arrays are modelled by their shape (a sequence of dimensions); the only *)
(* thing the adapter does to an array is look at ndim / shape[0] and       *)
(* reshape it.  The learning rate is an exact rational num/den, so the     *)
(* product learning_rate * learning_attenuate_rate is exact (floating      *)
(* point rounding is not modelled).  The wrapped network, the noise        *)
(* sampler and numpy are external: a call to the network or the sampler    *)
(* either returns a value or raises, chosen nondeterministically.          *)
(***************************************************************************)
EXTENDS Integers, Sequences, FiniteSets, TLC

\* Bounds of the model.
MaxEpoch == 3          \* successful learn() calls explored; also the largest attenuate_epoch
MaxFailedLearns == 1   \* learn() calls that raise
MaxBatch == 1          \* largest first dimension (batch size) of an array

VARIABLES
    nn,                       \* self.__nn
    learning_rate,            \* self.__learning_rate
    epoch_counter,            \* self.__epoch_counter
    loss_list,                \* self.__loss_list
    learning_attenuate_rate,  \* self.__learning_attenuate_rate
    attenuate_epoch,          \* self.__attenuate_epoch
    inferencing_mode,         \* self.__nn.opt_params.inferencing_mode
    \* the constructor's arguments, kept to state the properties
    nn_arg,                   \* the nn argument of __init__ ("None" or a network)
    initial_learning_rate,    \* the learning_rate argument of __init__
    \* the history of the calls made on the adapter
    ok_learns,                \* learn() calls that returned
    failed_learns,            \* learn() calls that raised
    last_switch,              \* <<>>, or <<args>>: the arguments of the last switch_inferencing_mode
    \* the last call made on the adapter
    last_op,                  \* its name
    last_arg,                 \* the array it was given (draw: the noise sample), <<>> if none
    calls,                    \* the calls it made on the network and the sampler, in order,
                              \* each <<name, argument(s)..., answer>>
    ret,                      \* what it returned
    raised                    \* the exception it raised, or "none"

state == <<nn, learning_rate, epoch_counter, loss_list, learning_attenuate_rate,
           attenuate_epoch, inferencing_mode>>
params == <<nn_arg, initial_learning_rate>>
history == <<ok_learns, failed_learns, last_switch>>
last == <<last_op, last_arg, calls, ret, raised>>
vars == <<state, params, history, last>>

----------------------------------------------------------------------------
\* Rationals.
Rat(n, d) == [num |-> n, den |-> d]
Mul(a, b) == Rat(a.num * b.num, a.den * b.den)
RatEq(a, b) == a.num * b.den = b.num * a.den

RECURSIVE Pow(_, _)
Pow(a, k) == IF k = 0 THEN Rat(1, 1) ELSE Mul(a, Pow(a, k - 1))

\* Arrays, by shape.
\* The arrays given to the adapter: the 0-d array, and arrays of rank 1, 2 and 3
\* with every batch size, one of them with no elements in a sample.
Trailing == {<<>>, <<3>>, <<2, 3>>, <<0, 3>>}
Shapes == {<<>>} \cup {<<b>> \o t : b \in 0..MaxBatch, t \in Trailing}

RECURSIVE Size(_)
Size(a) == IF Len(a) = 0 THEN 1 ELSE a[1] * Size(Tail(a))

ndim(a) == Len(a)

\* The values the external calls return.
NoValue == "NoValue"
NetReturns == {"arr_a", "arr_b"}
NetOutcomes == NetReturns \cup {"raise"}
Networks == {"nn_a"}

\* The constructor's arguments.
LearningRates == {Rat(1, 100)}
LearningAttenuateRates == {Rat(1, 10)}
AttenuateEpochs == 0..MaxEpoch

----------------------------------------------------------------------------
\* observed_arr.reshape((observed_arr.shape[0], -1)): shape[0] of a 0-d array
\* raises IndexError; numpy cannot infer the -1 when shape[0] is 0 and raises
\* ValueError.
reshape_raises(a) ==
    IF ndim(a) = 0 THEN "IndexError"
    ELSE IF a[1] = 0 THEN "ValueError"
    ELSE "none"

\* Faulty variant: reshape((-1, shape[0])).
reshape_batch_last(a) == <<Size(a) \div a[1], a[1]>>
reshape(a) == <<a[1], Size(a) \div a[1]>>

\* if arr.ndim != 2: arr = arr.reshape((arr.shape[0], -1))
as_2d_raises(a) == IF ndim(a) # 2 THEN reshape_raises(a) ELSE "none"
as_2d(a) == IF ndim(a) # 2 THEN reshape(a) ELSE a

\* nn = NeuralNetwork(...) if nn is None; self.__nn = nn
constructed_nn(arg) == IF arg = "None" THEN "NeuralNetwork" ELSE arg

Init ==
    /\ nn_arg \in Networks \cup {"None"}
    /\ nn = constructed_nn(nn_arg)
    /\ initial_learning_rate \in LearningRates
    /\ learning_rate = initial_learning_rate
    /\ loss_list = <<>>
    /\ epoch_counter = 0
    /\ learning_attenuate_rate \in LearningAttenuateRates
    /\ attenuate_epoch \in AttenuateEpochs
    /\ inferencing_mode \in BOOLEAN
    /\ ok_learns = 0
    /\ failed_learns = 0
    /\ last_switch = <<>>
    /\ last_op = "__init__"
    /\ last_arg = <<>>
    /\ calls = <<>>
    /\ ret = NoValue
    /\ raised = "none"

----------------------------------------------------------------------------
\* pred_arr = self.__nn.inference(observed_arr): the call and its answer.
inference_call(observed_arr, out) == <<"inference", as_2d(observed_arr), out>>

\* What inference(observed_arr) does when the network answers `out`
\* (a value, or "raise").
inference_result(observed_arr, out) ==
    IF as_2d_raises(observed_arr) # "none"
    THEN [calls |-> <<>>, ret |-> NoValue, raised |-> as_2d_raises(observed_arr)]
    ELSE IF out = "raise"
    THEN [calls |-> <<inference_call(observed_arr, out)>>, ret |-> NoValue,
          raised |-> "NetworkError"]
    ELSE [calls |-> <<inference_call(observed_arr, out)>>, ret |-> out,
          raised |-> "none"]

inference(observed_arr, out) ==
    LET r == inference_result(observed_arr, out) IN
    /\ last_op' = "inference"
    /\ last_arg' = observed_arr
    /\ calls' = r.calls
    /\ ret' = r.ret
    /\ raised' = r.raised
    /\ UNCHANGED <<state, params, history>>

\* draw(): noise_sampler.generate() raises (sample = <<>>) or returns an array
\* (sample = <<observed_arr>>), which goes through inference.
SamplerOutcomes == {<<>>} \cup {<<a>> : a \in Shapes}

\* Faulty variant: the sample goes to the network's inference as it is.
draw_result_bypasses_inference(sample, out) ==
    IF sample = <<>>
    THEN [calls |-> << <<"generate", sample>> >>, ret |-> NoValue,
          raised |-> "SamplerError"]
    ELSE [calls |-> << <<"generate", sample>>, <<"inference", sample[1], out>> >>,
          ret |-> IF out = "raise" THEN NoValue ELSE out,
          raised |-> IF out = "raise" THEN "NetworkError" ELSE "none"]

draw_result(sample, out) ==
    IF sample = <<>>
    THEN [calls |-> << <<"generate", sample>> >>, ret |-> NoValue,
          raised |-> "SamplerError"]
    ELSE LET r == inference_result(sample[1], out) IN
         [calls |-> << <<"generate", sample>> >> \o r.calls, ret |-> r.ret,
          raised |-> r.raised]

draw(sample, out) ==
    LET r == draw_result(sample, out) IN
    /\ last_op' = "draw"
    /\ last_arg' = IF sample = <<>> THEN <<>> ELSE sample[1]
    /\ calls' = r.calls
    /\ ret' = r.ret
    /\ raised' = r.raised
    /\ UNCHANGED <<state, params, history>>

\* if ((self.__epoch_counter + 1) % self.__attenuate_epoch == 0)
\* Faulty variant: tests the counter before counting this call.
decay_due_before_increment(counter, every) == counter % every = 0
decay_due(counter, every) == (counter + 1) % every = 0

\* self.__learning_rate = self.__learning_rate * self.__learning_attenuate_rate
\* Faulty variant: the product is not stored.
attenuate_not_stored(rate, factor) == rate
attenuate(rate, factor) == Mul(rate, factor)

\* delta_arr = self.__nn.back_propagation(grad_arr), grad_arr made 2-D before
back_propagation_call(grad_arr, bp_out) ==
    <<"back_propagation", as_2d(grad_arr), bp_out>>

\* self.__nn.optimize(self.__learning_rate, self.__epoch_counter)
\* Faulty variant: the counter is incremented before optimize is called.
optimize_call_counter_first(rate, counter, answer) == <<"optimize", rate, counter + 1, answer>>
optimize_call(rate, counter, answer) == <<"optimize", rate, counter, answer>>

\* back_propagation, then optimize
\* Faulty variant: optimize is called first.
learn_calls_optimize_first(bp, opt) == <<opt, bp>>
learn_calls(bp, opt) == <<bp, opt>>

\* self.__epoch_counter += 1
\* Faulty variant: the increment is missing.
next_epoch_skipped(counter) == counter
next_epoch(counter) == counter + 1

\* What learn(grad_arr) does, statement by statement, when back_propagation
\* answers bp_out and optimize raises or not: the fields the call leaves and
\* what it returns or raises.  The modulo raises ZeroDivisionError when
\* attenuate_epoch is 0.
learn_result(grad_arr, bp_out, optimize_raises) ==
    IF attenuate_epoch = 0
    THEN [learning_rate |-> learning_rate, epoch_counter |-> epoch_counter,
          calls |-> <<>>, ret |-> NoValue, raised |-> "ZeroDivisionError"]
    ELSE
    LET rate == IF decay_due(epoch_counter, attenuate_epoch)
                THEN attenuate(learning_rate, learning_attenuate_rate)
                ELSE learning_rate
        bp == back_propagation_call(grad_arr, bp_out)
    IN
    IF as_2d_raises(grad_arr) # "none"
    THEN [learning_rate |-> rate, epoch_counter |-> epoch_counter,
          calls |-> <<>>, ret |-> NoValue, raised |-> as_2d_raises(grad_arr)]
    ELSE IF bp_out = "raise"
    THEN [learning_rate |-> rate, epoch_counter |-> epoch_counter,
          calls |-> <<bp>>, ret |-> NoValue, raised |-> "NetworkError"]
    ELSE IF optimize_raises
    THEN [learning_rate |-> rate, epoch_counter |-> epoch_counter,
          calls |-> learn_calls(bp, optimize_call(rate, epoch_counter, "raise")),
          ret |-> NoValue, raised |-> "NetworkError"]
    ELSE [learning_rate |-> rate, epoch_counter |-> next_epoch(epoch_counter),
          calls |-> learn_calls(bp, optimize_call(rate, epoch_counter, "ok")),
          ret |-> bp_out, raised |-> "none"]

learn(grad_arr, bp_out, optimize_raises) ==
    LET r == learn_result(grad_arr, bp_out, optimize_raises) IN
    /\ IF r.raised = "none" THEN ok_learns < MaxEpoch
                            ELSE failed_learns < MaxFailedLearns
    /\ learning_rate' = r.learning_rate
    /\ epoch_counter' = r.epoch_counter
    /\ ok_learns' = IF r.raised = "none" THEN ok_learns + 1 ELSE ok_learns
    /\ failed_learns' = IF r.raised = "none" THEN failed_learns ELSE failed_learns + 1
    /\ last_op' = "learn"
    /\ last_arg' = grad_arr
    /\ calls' = r.calls
    /\ ret' = r.ret
    /\ raised' = r.raised
    /\ UNCHANGED <<nn, loss_list, learning_attenuate_rate, attenuate_epoch,
                   inferencing_mode, params, last_switch>>

\* switch_inferencing_mode(inferencing_mode=True): args is <<>> when the call
\* gives no argument, <<m>> when it gives m.
ModeArgs == {<<>>, <<TRUE>>, <<FALSE>>}

\* self.__nn.opt_params.inferencing_mode = inferencing_mode
\* Faulty variant: the default is False.
mode_argument_default_off(args) == IF args = <<>> THEN FALSE ELSE args[1]
mode_argument(args) == IF args = <<>> THEN TRUE ELSE args[1]

switch_inferencing_mode(args) ==
    /\ inferencing_mode' = mode_argument(args)
    /\ last_switch' = <<args>>
    /\ last_op' = "switch_inferencing_mode"
    /\ last_arg' = <<>>
    /\ calls' = <<>>
    /\ ret' = NoValue
    /\ raised' = "none"
    /\ UNCHANGED <<nn, learning_rate, epoch_counter, loss_list,
                   learning_attenuate_rate, attenuate_epoch, params,
                   ok_learns, failed_learns>>

\* return self.__nn
get_nn_result == nn

get_nn ==
    /\ last_op' = "get_nn"
    /\ last_arg' = <<>>
    /\ calls' = <<>>
    /\ ret' = get_nn_result
    /\ raised' = "none"
    /\ UNCHANGED <<state, params, history>>

\* raise TypeError("This property must be read-only.")
\* Faulty variant: the setter assigns.
set_nn_assigns(value) == [nn |-> value, raised |-> "none"]
set_nn_result(value) == [nn |-> nn, raised |-> "TypeError"]

\* The values a caller tries to assign to the nn property.
SetNnValues == Networks \cup {"None", "nn_b"}

set_nn(value) ==
    LET r == set_nn_result(value) IN
    /\ nn' = r.nn
    /\ last_op' = "set_nn"
    /\ last_arg' = <<>>
    /\ calls' = <<>>
    /\ ret' = NoValue
    /\ raised' = r.raised
    /\ UNCHANGED <<learning_rate, epoch_counter, loss_list, learning_attenuate_rate,
                   attenuate_epoch, inferencing_mode, params, history>>

Next ==
    \/ \E a \in Shapes, out \in NetOutcomes : inference(a, out)
    \/ \E s \in SamplerOutcomes, out \in NetOutcomes : draw(s, out)
    \/ \E g \in Shapes, out \in NetOutcomes, o \in BOOLEAN : learn(g, out, o)
    \/ \E m \in ModeArgs : switch_inferencing_mode(m)
    \/ get_nn
    \/ \E v \in SetNnValues : set_nn(v)

Spec == Init /\ [][Next]_vars
----------------------------------------------------------------------------
\* The schedule of C1, C7 and C9: the initial rate times the factor to the power k.
scheduled_rate(k) == Mul(initial_learning_rate, Pow(learning_attenuate_rate, k))

\* C1: on a fresh NNModel with attenuate_epoch N >= 1, after n learn() calls that
\* all completed, the learning rate is initial_learning_rate *
\* learning_attenuate_rate^floor(n / N): one decay in each of the calls N, 2N, ...
\* and in no other call.
C1_DecaySchedule ==
    (attenuate_epoch >= 1 /\ failed_learns = 0) =>
        RatEq(learning_rate, scheduled_rate(ok_learns \div attenuate_epoch))

\* C1's case: N > 1, the N-th learn() has just decayed the rate, the first did not.
C1_Witness ==
    /\ attenuate_epoch = 2 /\ failed_learns = 0 /\ ok_learns = 3
    /\ last_op = "learn"
    /\ RatEq(learning_rate, Mul(initial_learning_rate, learning_attenuate_rate))

\* C2: the nn property is read-only: every assignment raises TypeError and changes
\* nothing, so nn is always the network construction stored (the nn argument, or
\* the NeuralNetwork built when it was None), and get_nn returns it.
C2_NetworkReadOnly ==
    /\ [](/\ nn = constructed_nn(nn_arg)
          /\ (last_op = "set_nn" => raised = "TypeError")
          /\ (last_op = "get_nn" => ret = constructed_nn(nn_arg)))
    /\ [][last_op' = "set_nn" => UNCHANGED <<state, params, history>>]_vars

\* C2's case: an assignment was rejected after the adapter had learned.
C2_Witness ==
    /\ last_op = "set_nn" /\ raised = "TypeError" /\ ok_learns > 0
    /\ last_switch # <<>> /\ nn = "NeuralNetwork"

\* The call of name `name` among the calls of the last operation.
CallsNamed(name) == {i \in 1..Len(calls) : calls[i][1] = name}

\* The array a call hands over is the 2-D form of array a: same batch size, same
\* number of elements, a itself when a is 2-D.
Is2DFormOf(handed, a) ==
    /\ Len(handed) = 2
    /\ handed[1] = a[1]
    /\ Size(handed) = Size(a)
    /\ (Len(a) = 2 => handed = a)

\* C3 as stated: for every input array, inference hands the network a 2-D array
\* with the input's batch size and number of elements, and returns what the
\* network returned.  (Read for the arrays that have a first dimension: a 0-d
\* array, for which inference raises IndexError, is left aside.)
C3_Original ==
    (last_op = "inference" /\ Len(last_arg) >= 1) =>
        /\ Len(calls) = 1
        /\ calls[1][1] = "inference"
        /\ Is2DFormOf(calls[1][2], last_arg)
        /\ (raised = "none" => ret = calls[1][3])

\* C3, amended: the same for every input array that is 2-D or has rank >= 1 and a
\* batch size > 0; for a 0-d array inference raises IndexError and for an array of
\* rank 1 or >= 3 with batch size 0 it raises ValueError, in both cases without
\* calling the network.
C3_BatchPreserved ==
    last_op = "inference" =>
        IF Len(last_arg) = 0 THEN raised = "IndexError" /\ calls = <<>>
        ELSE IF Len(last_arg) # 2 /\ last_arg[1] = 0
        THEN raised = "ValueError" /\ calls = <<>>
        ELSE /\ Len(calls) = 1
             /\ calls[1][1] = "inference"
             /\ Is2DFormOf(calls[1][2], last_arg)
             /\ raised \in {"none", "NetworkError"}
             /\ (raised = "none" => ret = calls[1][3] /\ ret \in NetReturns)

\* C3's case: a rank-3 batch was flattened and the network's answer returned.
C3_Witness ==
    /\ last_op = "inference" /\ raised = "none"
    /\ last_arg = <<1, 2, 3>>
    /\ calls = << <<"inference", <<1, 6>>, "arr_b">> >>
    /\ ret = "arr_b"

\* C4: a learn() that completes calls back_propagation exactly once, with the
\* gradients in 2-D form, then optimize exactly once, and returns what
\* back_propagation returned; no learn() calls optimize without a back_propagation
\* that returned before it in the same call.
C4_OneOptimizationStep ==
    last_op = "learn" =>
        /\ raised = "none" =>
              /\ Len(calls) = 2
              /\ calls[1][1] = "back_propagation"
              /\ Is2DFormOf(calls[1][2], last_arg)
              /\ calls[2][1] = "optimize"
              /\ ret = calls[1][3]
              /\ ret \in NetReturns
        /\ \A i \in CallsNamed("optimize") :
              \E j \in 1..(i - 1) :
                  calls[j][1] = "back_propagation" /\ calls[j][3] # "raise"

\* C4's case: a learn() with rank-3 gradients completed.
C4_Witness ==
    /\ last_op = "learn" /\ raised = "none"
    /\ last_arg = <<1, 2, 3>>
    /\ calls[1] = <<"back_propagation", <<1, 6>>, "arr_a">>
    /\ calls[2][1] = "optimize"
    /\ ret = "arr_a"

\* C5 as stated: each draw() calls generate exactly once, then the network's
\* inference exactly once, and returns the network's answer; it calls neither
\* back_propagation nor optimize.  (Read for a sampler and a network that answer,
\* and for samples that have a first dimension.)
C5_Original ==
    (/\ last_op = "draw"
     /\ raised \notin {"SamplerError", "NetworkError"}
     /\ Len(last_arg) >= 1) =>
        /\ CallsNamed("back_propagation") = {}
        /\ CallsNamed("optimize") = {}
        /\ Len(calls) = 2
        /\ calls[1][1] = "generate"
        /\ calls[2][1] = "inference"
        /\ ret = calls[2][3]

\* C5, amended: each draw() calls generate exactly once, first, and neither
\* back_propagation nor optimize; when the sample is 2-D or has rank >= 1 and a
\* batch size > 0, it then calls the network's inference exactly once, on the
\* sample's 2-D form, and a draw() that returns, returns the network's answer;
\* for any other sample draw() raises (IndexError, ValueError) without calling the
\* network.
C5_DrawForwardsNoise ==
    last_op = "draw" =>
        /\ Len(calls) >= 1
        /\ CallsNamed("generate") = {1}
        /\ CallsNamed("back_propagation") = {}
        /\ CallsNamed("optimize") = {}
        /\ calls[1][2] # <<>> =>
              IF Len(last_arg) = 0 THEN raised = "IndexError" /\ Len(calls) = 1
              ELSE IF Len(last_arg) # 2 /\ last_arg[1] = 0
              THEN raised = "ValueError" /\ Len(calls) = 1
              ELSE /\ Len(calls) = 2
                   /\ calls[2][1] = "inference"
                   /\ Is2DFormOf(calls[2][2], calls[1][2][1])
                   /\ raised \in {"none", "NetworkError"}
                   /\ (raised = "none" => ret = calls[2][3] /\ ret \in NetReturns)

\* C5's case: a draw() whose sample went through the network.
C5_Witness ==
    /\ last_op = "draw" /\ raised = "none"
    /\ calls = << <<"generate", << <<1, 2, 3>> >> >>, <<"inference", <<1, 6>>, "arr_a">> >>
    /\ ret = "arr_a"

\* C6: switch_inferencing_mode(m) sets the network's inferencing_mode to m, True
\* when called without argument, so the flag is the argument of the most recent
\* call; the call leaves the learning rate, the epoch counter and nn unchanged,
\* and no other operation writes the flag.
C6_SwitchInferencingMode ==
    /\ [](last_switch # <<>> =>
            inferencing_mode = (IF last_switch[1] = <<>> THEN TRUE ELSE last_switch[1][1]))
    /\ [][last_op' = "switch_inferencing_mode" =>
            UNCHANGED <<learning_rate, epoch_counter, nn>>]_vars
    /\ [][last_op' # "switch_inferencing_mode" => UNCHANGED inferencing_mode]_vars

\* C6's case: the flag was switched off, then on by a call without argument, with
\* learn() calls before and after.
C6_Witness ==
    /\ last_switch = << <<>> >> /\ inferencing_mode
    /\ last_op = "learn" /\ ok_learns = 2

\* C7: on a fresh NNModel whose learn() calls all completed, the k-th learn() calls
\* optimize with epoch k - 1 and with the rate after this call's decay check,
\* initial_learning_rate * learning_attenuate_rate^floor(k / attenuate_epoch).
C7_OptimizeArguments ==
    (last_op = "learn" /\ raised = "none" /\ failed_learns = 0) =>
        /\ CallsNamed("optimize") = {2}
        /\ calls[2][3] = ok_learns - 1
        /\ RatEq(calls[2][2], scheduled_rate(ok_learns \div attenuate_epoch))

\* C7's case: the call that triggers the decay (epoch attenuate_epoch - 1) already
\* optimizes with the decayed rate.
C7_Witness ==
    /\ last_op = "learn" /\ raised = "none" /\ failed_learns = 0
    /\ attenuate_epoch = 3 /\ ok_learns = 3
    /\ calls[2][3] = 2
    /\ calls[2][2] = Mul(initial_learning_rate, learning_attenuate_rate)

\* C8: the epoch counter is the number of learn() calls that completed and the
\* loss list is empty, in every state; every operation but learn() leaves the
\* epoch counter and the learning rate unchanged.
C8_EpochCounter ==
    /\ [](epoch_counter = ok_learns /\ loss_list = <<>>)
    /\ [][last_op' # "learn" => UNCHANGED <<epoch_counter, learning_rate>>]_vars

\* C8's case: learn() calls completed, one failed, and other operations followed.
C8_Witness ==
    /\ epoch_counter = 3 /\ failed_learns = 1
    /\ last_op = "draw" /\ last_switch # <<>>

\* C9 as stated: a learn() in which back_propagation or optimize raises leaves the
\* epoch counter and the learning rate as they were before the call.
C9_FailedLearnKeepsState ==
    [][(last_op' = "learn" /\ raised' = "NetworkError") =>
        UNCHANGED <<epoch_counter, learning_rate>>]_vars

\* C10: with attenuate_epoch = 0 every learn() raises ZeroDivisionError without
\* calling the network and without changing the rate or the counter; with
\* attenuate_epoch = 1 every learn() multiplies the rate by
\* learning_attenuate_rate.
C10_AttenuateEpochZeroAndOne ==
    /\ [](attenuate_epoch = 0 =>
            /\ learning_rate = initial_learning_rate
            /\ epoch_counter = 0
            /\ ok_learns = 0
            /\ (last_op = "learn" => raised = "ZeroDivisionError" /\ calls = <<>>))
    /\ [][(last_op' = "learn" /\ attenuate_epoch = 1) =>
            RatEq(learning_rate', Mul(learning_rate, learning_attenuate_rate))]_vars

\* C10's case: an adapter built around a given network with attenuate_epoch = 0,
\* whose learn() raised.
C10_Witness ==
    /\ attenuate_epoch = 0 /\ nn_arg = "nn_a"
    /\ last_op = "learn" /\ raised = "ZeroDivisionError" /\ failed_learns = 1
====
